---- MODULE Spec2Model ----
(***************************************************************************)
(* VotingKeyLinkV1Transaction (src/model/transaction/                       *)
(* VotingKeyLinkV1Transaction.ts): construction, the standalone and the     *)
(* embedded encoders, createFromPayload, resolveAliases and                 *)
(* shouldNotifyAccount.                                                     *)
(*                                                                         *)
(* Objects live in `heap` (a sequence; an object's index is its identity).  *)
(* heap[1] is the instance built by create, on which the methods are        *)
(* called; createFromPayload allocates its results after it.                *)
(* `call` records the last call and its arguments, `ret` what it returned   *)
(* or threw.                                                                *)
(***************************************************************************)
EXTENDS Integers, Sequences, FiniteSets, TLC

VARIABLES heap, call, ret

vars == <<heap, call, ret>>

-----------------------------------------------------------------------------
(* Bounds of the explored inputs.                                           *)

MaxEpoch == 1

\* Sizes in bytes of the signature block, of the signer public key and of the
\* voting key on the wire, scaled down (the codec's are 64, 32 and 48).
SignatureSize == 2

PublicKeySize == 2

VotingKeySize == 2

-----------------------------------------------------------------------------
(* Program constants.                                                       *)

\* TransactionVersion.VOTING_KEY_LINK_V1
VOTING_KEY_LINK_V1 == 1

\* TransactionType.VOTING_KEY_LINK (0x4143)
VOTING_KEY_LINK == 16707

NetworkTypes == {104, 152}

\* LinkAction.Unlink = 0, LinkAction.Link = 1
LinkActions == {0, 1}

-----------------------------------------------------------------------------
(* Optional values: undefined is None, a present value x is Some(x).        *)

None == <<>>

Some(x) == <<x>>

\* Bind(e, F) is F(e) with e evaluated once (TLC evaluates a LET definition
\* again at each of its uses).
Bind(e, F(_)) == CHOOSE y \in {F(x) : x \in {e}} : TRUE

-----------------------------------------------------------------------------
(* Convert: hex text <-> bytes. Hex text is a sequence of one-character     *)
(* strings. hexToUint8 accepts both cases of a digit, uint8ToHex writes     *)
(* upper case. Both are only applied to well-formed text (even length, hex  *)
(* digits only); the inputs explored are well-formed.                       *)

NibbleToChar == <<"0", "1", "2", "3", "4", "5", "6", "7", "8", "9", "A", "B", "C", "D", "E", "F">>

LowerChars == <<"a", "b", "c", "d", "e", "f">>

HexChars == {NibbleToChar[i] : i \in 1..16} \cup {LowerChars[i] : i \in 1..6}

CharToNibbleMap ==
    [c \in HexChars |->
        IF \E i \in 1..16 : NibbleToChar[i] = c
        THEN (CHOOSE i \in 1..16 : NibbleToChar[i] = c) - 1
        ELSE (CHOOSE i \in 1..6 : LowerChars[i] = c) + 9]

CharToNibble(c) == CharToNibbleMap[c]

hexToUint8(s) ==
    [i \in 1..(Len(s) \div 2) |-> 16 * CharToNibble(s[2 * i - 1]) + CharToNibble(s[2 * i])]

uint8ToHex(bs) ==
    [i \in 1..(2 * Len(bs)) |->
        IF i % 2 = 1 THEN NibbleToChar[(bs[(i + 1) \div 2] \div 16) + 1]
        ELSE NibbleToChar[(bs[i \div 2] % 16) + 1]]

\* signerPublicKey.match(`^[0]+$`): a non-empty text of zeros only
MatchesAllZero(s) == Len(s) > 0 /\ \A i \in 1..Len(s) : s[i] = "0"

-----------------------------------------------------------------------------
(* Address, PublicAccount, Deadline, UInt64.                                *)

\* Address.createFromPublicKey: the address is a function of the key's
\* bytes and of the network type (a hash; modelled as the pair itself).
AddressCreateFromPublicKey(publicKey, networkType) ==
    [key |-> hexToUint8(publicKey), networkType |-> networkType]

PublicAccountCreateFromPublicKey(publicKey, networkType) ==
    [publicKey |-> publicKey, address |-> AddressCreateFromPublicKey(publicKey, networkType)]

\* A Deadline is its adjusted value; a UInt64 is the pair <<lower, higher>>
\* of its 32-bit words. Values stay below 2^31.
DeadlineCreateEmtpy == 0

DeadlineToDTO(d) == <<d, 0>>

DeadlineCreateFromDTO(dto) ==
    IF dto[2] = 0 THEN dto[1] ELSE dto[1] + dto[2] * 65536 * 65536

UInt64Zero == <<0, 0>>

-----------------------------------------------------------------------------
(* Transaction (base class): fields and the inherited operations.           *)

Transaction(type, networkType, version, deadline, maxFee, signature, signer, transactionInfo) ==
    [type |-> type, networkType |-> networkType, version |-> version,
     deadline |-> deadline, maxFee |-> maxFee, signature |-> signature,
     signer |-> signer, transactionInfo |-> transactionInfo]

ZeroBytes(n) == [i \in 1..n |-> 0]

\* the signature's bytes, or a zero block when the instance has none
getSignatureAsBuilder(this) ==
    IF this.signature = None THEN ZeroBytes(SignatureSize) ELSE hexToUint8(this.signature[1])

\* the signer's public key bytes, or a zero key when the instance has none
getSignerAsBuilder(this) ==
    IF this.signer = None THEN ZeroBytes(PublicKeySize) ELSE hexToUint8(this.signer[1].publicKey)

versionToDTO(this) == this.version

isSigned(this, address) ==
    this.signer # None /\ this.signer[1].address = address

-----------------------------------------------------------------------------
(* VotingKeyLinkV1Transaction: constructor and create.                      *)

Constructor(networkType, version, deadline, maxFee, linkedPublicKey, startEpoch, endEpoch, linkAction, signature, signer, transactionInfo) ==
    [f \in {"linkedPublicKey", "startEpoch", "endEpoch", "linkAction"} |->
        CASE f = "linkedPublicKey" -> linkedPublicKey
          [] f = "startEpoch" -> startEpoch
          [] f = "endEpoch" -> endEpoch
          [] f = "linkAction" -> linkAction]
    @@ Transaction(VOTING_KEY_LINK, networkType, version, deadline, maxFee, signature,
                   signer, transactionInfo)

\* the default fee is not zero
create_defaultFeeOne(deadline, linkedPublicKey, startEpoch, endEpoch, linkAction, networkType, maxFee, signature, signer) ==
    Constructor(networkType, VOTING_KEY_LINK_V1, deadline,
                IF maxFee = None THEN <<1, 0>> ELSE maxFee[1],
                linkedPublicKey, startEpoch, endEpoch, linkAction, signature, signer, None)

\* the version of another transaction family is passed
create_otherVersion(deadline, linkedPublicKey, startEpoch, endEpoch, linkAction, networkType, maxFee, signature, signer) ==
    Constructor(networkType, VOTING_KEY_LINK_V1 + 1, deadline,
                IF maxFee = None THEN UInt64Zero ELSE maxFee[1],
                linkedPublicKey, startEpoch, endEpoch, linkAction, signature, signer, None)

\* the epochs are put in order
create_ordersEpochs(deadline, linkedPublicKey, startEpoch, endEpoch, linkAction, networkType, maxFee, signature, signer) ==
    Constructor(networkType, VOTING_KEY_LINK_V1, deadline,
                IF maxFee = None THEN UInt64Zero ELSE maxFee[1],
                linkedPublicKey,
                IF startEpoch <= endEpoch THEN startEpoch ELSE endEpoch,
                IF startEpoch <= endEpoch THEN endEpoch ELSE startEpoch,
                linkAction, signature, signer, None)

\* maxFee is None when the caller leaves the argument out
create(deadline, linkedPublicKey, startEpoch, endEpoch, linkAction, networkType, maxFee, signature, signer) ==
    Constructor(networkType, VOTING_KEY_LINK_V1, deadline,
                IF maxFee = None THEN UInt64Zero ELSE maxFee[1],
                linkedPublicKey, startEpoch, endEpoch, linkAction, signature, signer, None)

-----------------------------------------------------------------------------
(* The binary codec (VotingKeyLinkV1TransactionBuilder and                  *)
(* EmbeddedVotingKeyLinkV1TransactionBuilder). A builder is the sequence of *)
(* its constructor's arguments; the layout names the field each position    *)
(* holds, in wire order.                                                    *)

StandaloneLayout ==
    <<"signature", "signerPublicKey", "version", "network", "type", "fee", "deadline",
      "linkedPublicKey", "startEpoch", "endEpoch", "linkAction">>

EmbeddedLayout ==
    <<"signerPublicKey", "version", "network", "type", "linkedPublicKey", "startEpoch",
      "endEpoch", "linkAction">>

LayoutOf(kind) == IF kind = "embedded" THEN EmbeddedLayout ELSE StandaloneLayout

Width(field) ==
    CASE field = "signature" -> SignatureSize
      [] field = "signerPublicKey" -> PublicKeySize
      [] field = "linkedPublicKey" -> VotingKeySize
      [] field \in {"fee", "deadline"} -> 8
      [] field \in {"startEpoch", "endEpoch"} -> 4
      [] field = "type" -> 2
      [] OTHER -> 1

\* little-endian unsigned integer of n bytes (the value is cut to n bytes)
UintToBuffer(v, n) == [i \in 1..n |-> (v \div (256 ^ (i - 1))) % 256]

RECURSIVE BufferToUint(_)
BufferToUint(bs) == IF bs = <<>> THEN 0 ELSE bs[1] + 256 * BufferToUint(Tail(bs))

IsBytesField(field) == field \in {"signature", "signerPublicKey", "linkedPublicKey"}

EncodeField(field, v) ==
    CASE IsBytesField(field) -> v
      [] field \in {"fee", "deadline"} -> UintToBuffer(v[1], 4) \o UintToBuffer(v[2], 4)
      [] OTHER -> UintToBuffer(v, Width(field))

DecodeField(field, bs) ==
    CASE IsBytesField(field) -> bs
      [] field \in {"fee", "deadline"} ->
            <<BufferToUint(SubSeq(bs, 1, 4)), BufferToUint(SubSeq(bs, 5, 8))>>
      [] OTHER -> BufferToUint(bs)

RECURSIVE Offset(_, _)
\* number of bytes before position i of the layout
Offset(layout, i) ==
    IF i <= 1 THEN 0 ELSE Offset(layout, i - 1) + Width(layout[i - 1])

\* the offsets of each layout, computed once
Offsets ==
    [kind \in {"standalone", "embedded"} |->
        [i \in 1..(Len(LayoutOf(kind)) + 1) |-> Offset(LayoutOf(kind), i)]]

PayloadSize(kind) == Offsets[kind][Len(LayoutOf(kind)) + 1]

RECURSIVE ConcatAll(_)
ConcatAll(ss) == IF ss = <<>> THEN <<>> ELSE Head(ss) \o ConcatAll(Tail(ss))

Throw(error) == [kind |-> "throw", error |-> error]

IsThrow(r) == r.kind = "throw"

\* serialize: the fields in wire order; a fixed-length byte field of the
\* wrong length is rejected here
BuilderSerialize(builder) ==
    Bind(builder, LAMBDA b :
        LET layout == LayoutOf(b.kind)
        IN IF \E i \in 1..Len(layout) :
                  IsBytesField(layout[i]) /\ Len(b.args[i]) # Width(layout[i])
           THEN Throw("EncodeError")
           ELSE [kind |-> "bytes",
                 bytes |-> ConcatAll([i \in 1..Len(layout) |->
                                         EncodeField(layout[i], b.args[i])])])

\* loadFromBinary: a payload shorter than the layout is rejected, bytes
\* after the last field are not read
LoadFromBinary(kind, bytes) ==
    Bind(bytes, LAMBDA bs :
        LET layout == LayoutOf(kind)
        IN IF Len(bs) < PayloadSize(kind)
           THEN Throw("DecodeError")
           ELSE [kind |-> kind,
                 args |-> [i \in 1..Len(layout) |->
                              DecodeField(layout[i],
                                          SubSeq(bs, Offsets[kind][i] + 1,
                                                 Offsets[kind][i + 1]))]])

\* builder.getX(): the argument at the position the layout gives field X
Get(builder, field) ==
    LET layout == LayoutOf(builder.kind)
    IN builder.args[CHOOSE i \in 1..Len(layout) : layout[i] = field]

-----------------------------------------------------------------------------
(* The encoders.                                                            *)

\* the epochs are passed in the other order
createBuilder_swapEpochs(this) ==
    [kind |-> "standalone",
     args |-> <<getSignatureAsBuilder(this), getSignerAsBuilder(this), versionToDTO(this),
                this.networkType, VOTING_KEY_LINK, this.maxFee, DeadlineToDTO(this.deadline),
                hexToUint8(this.linkedPublicKey), this.endEpoch, this.startEpoch,
                this.linkAction>>]

createBuilder(this) ==
    [kind |-> "standalone",
     args |-> <<getSignatureAsBuilder(this), getSignerAsBuilder(this), versionToDTO(this),
                this.networkType, VOTING_KEY_LINK, this.maxFee, DeadlineToDTO(this.deadline),
                hexToUint8(this.linkedPublicKey), this.startEpoch, this.endEpoch,
                this.linkAction>>]

\* the epochs are passed in the other order
toEmbeddedTransaction_swapEpochs(this) ==
    [kind |-> "embedded",
     args |-> <<getSignerAsBuilder(this), versionToDTO(this), this.networkType,
                VOTING_KEY_LINK, hexToUint8(this.linkedPublicKey), this.endEpoch,
                this.startEpoch, this.linkAction>>]

toEmbeddedTransaction(this) ==
    [kind |-> "embedded",
     args |-> <<getSignerAsBuilder(this), versionToDTO(this), this.networkType,
                VOTING_KEY_LINK, hexToUint8(this.linkedPublicKey), this.startEpoch,
                this.endEpoch, this.linkAction>>]

\* Transaction.serialize: the hex text of the encoder's bytes
serialize(builder) ==
    Bind(BuilderSerialize(builder), LAMBDA r :
        IF IsThrow(r) THEN r ELSE [kind |-> "payload", payload |-> uint8ToHex(r.bytes)])

-----------------------------------------------------------------------------
(* createFromPayload. A call yields the heap after it and what it returned  *)
(* or threw.                                                                *)

\* a reference to the object at index n of the heap
Ref(n) == [kind |-> "ref", ref |-> n]

Result(h, r) == [heap |-> h, ret |-> r]

\* Transaction.getSignatureFromPayload: the signature region of the payload,
\* absent for an embedded payload and for an all-zero signature
getSignatureFromPayload(payload, isEmbedded) ==
    LET signature == SubSeq(payload, 1, 2 * SignatureSize)
    IN IF isEmbedded \/ MatchesAllZero(signature) THEN None ELSE Some(signature)

\* Transaction.toAggregate: a copy of the instance bound to the signer
toAggregate(h, this, signer) ==
    Result(Append(h, [h[this] EXCEPT !.signer = Some(signer)]), Ref(Len(h) + 1))

decodeDeadline(builder, isEmbedded) ==
    IF isEmbedded THEN DeadlineCreateEmtpy ELSE DeadlineCreateFromDTO(Get(builder, "deadline"))

\* the fee of an embedded payload is not set to zero
decodeMaxFee_keepsFee(builder, isEmbedded) ==
    IF isEmbedded THEN <<1, 0>> ELSE Get(builder, "fee")

decodeMaxFee(builder, isEmbedded) ==
    IF isEmbedded THEN UInt64Zero ELSE Get(builder, "fee")

\* the all-zero key is not treated apart
decodeSigner_noSentinel(signerPublicKey, networkType) ==
    Some(PublicAccountCreateFromPublicKey(signerPublicKey, networkType))

decodeSigner(signerPublicKey, networkType) ==
    IF MatchesAllZero(signerPublicKey) THEN None
    ELSE Some(PublicAccountCreateFromPublicKey(signerPublicKey, networkType))

\* lines 117-133, once loadFromBinary has returned a builder
fromBuilder(h, payload, builder, isEmbedded) ==
    LET signerPublicKey == uint8ToHex(Get(builder, "signerPublicKey"))
        networkType == Get(builder, "network")
        signature == getSignatureFromPayload(payload, isEmbedded)
        transaction ==
            create(decodeDeadline(builder, isEmbedded),
                   uint8ToHex(Get(builder, "linkedPublicKey")),
                   Get(builder, "startEpoch"),
                   Get(builder, "endEpoch"),
                   Get(builder, "linkAction"),
                   networkType,
                   Some(decodeMaxFee(builder, isEmbedded)),
                   signature,
                   decodeSigner(signerPublicKey, networkType))
    IN Bind(Append(h, transaction), LAMBDA h1 :
        IF isEmbedded
        THEN toAggregate(h1, Len(h1),
                         PublicAccountCreateFromPublicKey(signerPublicKey, networkType))
        ELSE Result(h1, Ref(Len(h1))))

loadBuilder(payload, isEmbedded) ==
    LoadFromBinary(IF isEmbedded THEN "embedded" ELSE "standalone", hexToUint8(payload))

\* a decode error caught, and an instance returned with the fields left unset
createFromPayload_swallow(h, payload, isEmbedded) ==
    Bind(loadBuilder(payload, isEmbedded), LAMBDA builder :
        IF IsThrow(builder)
        THEN Result(Append(h, Transaction(VOTING_KEY_LINK, None, VOTING_KEY_LINK_V1, None,
                                          UInt64Zero, None, None, None)),
                    Ref(Len(h) + 1))
        ELSE fromBuilder(h, payload, builder, isEmbedded))

createFromPayload(h, payload, isEmbedded) ==
    Bind(loadBuilder(payload, isEmbedded), LAMBDA builder :
        IF IsThrow(builder)
        THEN Result(h, builder)
        ELSE fromBuilder(h, payload, builder, isEmbedded))

-----------------------------------------------------------------------------
(* resolveAliases and shouldNotifyAccount.                                  *)

\* a copy of the instance is returned
resolveAliases_copy(h, this) == Result(Append(h, h[this]), Ref(Len(h) + 1))

resolveAliases(h, this) == Result(h, Ref(this))

\* the linked key is left out
shouldNotifyAccount_signerOnly(this, address) == isSigned(this, address)

shouldNotifyAccount(this, address) ==
    \/ isSigned(this, address)
    \/ AddressCreateFromPublicKey(this.linkedPublicKey, this.networkType) = address

-----------------------------------------------------------------------------
(* Inputs.                                                                  *)

Epochs == {257 * k : k \in 0..MaxEpoch}

Deadlines == {1, 259}

Fees == {<<0, 0>>, <<1, 1>>}

KeyUpper == [i \in 1..(2 * VotingKeySize) |-> IF i % 2 = 1 THEN "A" ELSE "B"]

KeyLower == [i \in 1..(2 * VotingKeySize) |-> IF i % 2 = 1 THEN "a" ELSE "b"]

\* a key no instance is linked to
KeyOther == [i \in 1..(2 * VotingKeySize) |-> IF i % 2 = 1 THEN "0" ELSE "F"]

KeyShort == [i \in 1..(2 * VotingKeySize - 2) |-> IF i % 2 = 1 THEN "A" ELSE "B"]

LinkedPublicKeys == {KeyUpper, KeyLower, KeyShort}

SignerKey == [i \in 1..(2 * PublicKeySize) |-> IF i = 2 * PublicKeySize THEN "7" ELSE "0"]

Signature1 == [i \in 1..(2 * SignatureSize) |-> IF i % 2 = 1 THEN "0" ELSE "C"]

-----------------------------------------------------------------------------
Init ==
    /\ heap = <<>>
    /\ call = [name |-> "none"]
    /\ ret = [kind |-> "none"]

Create ==
    /\ heap = <<>>
    /\ \E deadline \in Deadlines, linkedPublicKey \in LinkedPublicKeys,
          startEpoch \in Epochs, endEpoch \in Epochs, linkAction \in LinkActions,
          networkType \in NetworkTypes, maxFee \in {None} \cup {Some(f) : f \in Fees},
          signed \in BOOLEAN :
        LET signature == IF signed THEN Some(Signature1) ELSE None
            signer == IF signed
                      THEN Some(PublicAccountCreateFromPublicKey(SignerKey, networkType))
                      ELSE None
        IN /\ heap' = <<create(deadline, linkedPublicKey, startEpoch, endEpoch, linkAction,
                               networkType, maxFee, signature, signer)>>
           /\ call' = [name |-> "create", deadline |-> deadline,
                       linkedPublicKey |-> linkedPublicKey, startEpoch |-> startEpoch,
                       endEpoch |-> endEpoch, linkAction |-> linkAction,
                       networkType |-> networkType, maxFee |-> maxFee,
                       signature |-> signature, signer |-> signer]
           /\ ret' = Ref(1)

\* the instance the methods are called on
This == 1

HasInstance == Len(heap) >= 1

\* The heap a call starts from: the instance alone (what an earlier call
\* allocated is out of scope by then).
Live == <<heap[This]>>

CreateBuilder ==
    /\ HasInstance
    /\ call' = [name |-> "createBuilder"]
    /\ ret' = [kind |-> "builder", builder |-> createBuilder(heap[This])]
    /\ heap' = Live

ToEmbeddedTransaction ==
    /\ HasInstance
    /\ call' = [name |-> "toEmbeddedTransaction"]
    /\ ret' = [kind |-> "builder", builder |-> toEmbeddedTransaction(heap[This])]
    /\ heap' = Live

\* Transaction.serialize on the instance, in either form
Serialize ==
    /\ HasInstance
    /\ \E form \in {"standalone", "embedded"} :
        /\ call' = [name |-> "serialize", form |-> form]
        /\ ret' = serialize(IF form = "embedded" THEN toEmbeddedTransaction(heap[This])
                            ELSE createBuilder(heap[This]))
    /\ heap' = Live

ResolveAliases ==
    /\ HasInstance
    /\ \E r \in {resolveAliases(Live, This)} :
          /\ heap' = r.heap
          /\ ret' = r.ret
    /\ call' = [name |-> "resolveAliases"]

Addresses ==
    {AddressCreateFromPublicKey(k, 152) : k \in {SignerKey, KeyUpper, KeyOther}}

ShouldNotifyAccount ==
    /\ HasInstance
    /\ \E address \in Addresses :
        /\ call' = [name |-> "shouldNotifyAccount", address |-> address]
        /\ ret' = [kind |-> "bool", value |-> shouldNotifyAccount(heap[This], address)]
    /\ heap' = Live

\* What a payload handed to createFromPayload may be: the encoding of the
\* instance in either form, as written ("none"), cut short by one byte, or
\* written by a peer that set another version or type tag.
Damages == {"none", "cut1", "version", "type"}

SetArg(builder, field, v) ==
    LET layout == LayoutOf(builder.kind)
    IN [builder EXCEPT !.args[CHOOSE i \in 1..Len(layout) : layout[i] = field] = v]

PayloadOf(this, form, damage) ==
    LET b == IF form = "embedded" THEN toEmbeddedTransaction(this) ELSE createBuilder(this)
        b1 == CASE damage = "version" -> SetArg(b, "version", VOTING_KEY_LINK_V1 + 1)
                [] damage = "type" -> SetArg(b, "type", VOTING_KEY_LINK + 1)
                [] OTHER -> b
    IN Bind(serialize(b1), LAMBDA p :
        CASE IsThrow(p) -> p
          [] damage = "cut1" -> [p EXCEPT !.payload = SubSeq(@, 1, Len(@) - 2)]
          [] OTHER -> p)

CreateFromPayload ==
    /\ HasInstance
    /\ \E form \in {"standalone", "embedded"}, damage \in Damages, isEmbedded \in BOOLEAN :
        /\ damage = "none" \/ isEmbedded = (form = "embedded")
        /\ \E p \in {PayloadOf(heap[This], form, damage)} :
           /\ ~IsThrow(p)
           /\ \E r \in {createFromPayload(Live, p.payload, isEmbedded)} :
                 /\ heap' = r.heap
                 /\ ret' = r.ret
           /\ call' = [name |-> "createFromPayload", payload |-> p.payload,
                       isEmbedded |-> isEmbedded, form |-> form, damage |-> damage]

Next ==
    \/ Create
    \/ CreateBuilder
    \/ ToEmbeddedTransaction
    \/ Serialize
    \/ ResolveAliases
    \/ ShouldNotifyAccount
    \/ CreateFromPayload

Spec == Init /\ [][Next]_vars
-----------------------------------------------------------------------------
(* Properties.                                                              *)

\* the instance a call returned
Returned == heap[ret.ref]

Decoding == call.name = "createFromPayload"

\* the payload is the instance's own encoding in the form it is parsed in
RoundTrip(isEmbedded) ==
    /\ Decoding
    /\ call.damage = "none"
    /\ call.isEmbedded = isEmbedded
    /\ call.form = (IF isEmbedded THEN "embedded" ELSE "standalone")

\* hex text with its digits in upper case
UpperCase(s) ==
    [i \in 1..Len(s) |->
        IF \E j \in 1..6 : LowerChars[j] = s[i]
        THEN NibbleToChar[10 + (CHOOSE j \in 1..6 : LowerChars[j] = s[i])]
        ELSE s[i]]

SameLink(a, b) ==
    /\ a.startEpoch = b.startEpoch
    /\ a.endEpoch = b.endEpoch
    /\ a.linkAction = b.linkAction
    /\ a.networkType = b.networkType

DecodedSignerKey ==
    uint8ToHex(Get(loadBuilder(call.payload, call.isEmbedded), "signerPublicKey"))

SignerSentinel(k) ==
    IF MatchesAllZero(k) THEN Returned.signer = None
    ELSE Returned.signer = Some(PublicAccountCreateFromPublicKey(k, Returned.networkType))

\* C2 as stated: in both forms, an all-zero decoded signer key leaves the
\* signer of the returned instance unset, and a non-zero key makes it the
\* account of that key on the decoded network.
C2_ZeroSignerBothForms ==
    (Decoding /\ ret.kind = "ref") => \A k \in {DecodedSignerKey} : SignerSentinel(k)

\* C2 amended: parsed as standalone, an all-zero decoded signer key leaves the
\* signer unset and a non-zero key makes it the account of that key on the
\* decoded network; parsed as embedded, the signer of the returned instance is
\* always the account of the decoded key on the decoded network, the all-zero
\* key included.
C2_ZeroSigner ==
    (Decoding /\ ret.kind = "ref") =>
        \A k \in {DecodedSignerKey} :
            IF call.isEmbedded
            THEN Returned.signer = Some(PublicAccountCreateFromPublicKey(k, Returned.networkType))
            ELSE SignerSentinel(k)

C2_Witness ==
    /\ Decoding
    /\ ret.kind = "ref"
    /\ ~call.isEmbedded
    /\ MatchesAllZero(DecodedSignerKey)
    /\ Returned.signer = None

C4_Notify ==
    call.name = "shouldNotifyAccount" =>
        /\ ret.kind = "bool"
        /\ ret.value =
              (\/ /\ heap[This].signer # None
                  /\ heap[This].signer[1].address = call.address
               \/ /\ call.address.key = hexToUint8(heap[This].linkedPublicKey)
                  /\ call.address.networkType = heap[This].networkType)

\* notified for the linked key's address, which is not the signer's
C4_Witness ==
    /\ call.name = "shouldNotifyAccount"
    /\ ret.value
    /\ heap[This].signer # None
    /\ heap[This].signer[1].address # call.address
    /\ heap[This].linkedPublicKey = KeyLower

TransactionFields ==
    {"type", "networkType", "version", "deadline", "maxFee", "signature", "signer",
     "transactionInfo", "linkedPublicKey", "startEpoch", "endEpoch", "linkAction"}

\* C5: createFromPayload either throws the codec's decode error, allocating
\* no instance, or returns an instance with every field set; a payload cut
\* short throws.
C5_Malformed ==
    Decoding =>
        /\ \/ /\ ret = Throw("DecodeError")
              /\ heap = Live
           \/ /\ ret.kind = "ref"
              /\ ret.ref \in 1..Len(heap)
              /\ \A i \in 1..Len(heap) : DOMAIN heap[i] = TransactionFields
        /\ (Len(hexToUint8(call.payload))
              < PayloadSize(IF call.isEmbedded THEN "embedded" ELSE "standalone"))
           => ret.kind = "throw"
        /\ call.damage = "cut1" => ret.kind = "throw"

C5_Witness ==
    /\ Decoding
    /\ call.damage = "cut1"
    /\ ret = Throw("DecodeError")
    /\ Len(heap) = 1

\* C6: create without a maxFee yields maxFee = UInt64 zero; create with a
\* maxFee stores that value.
C6_DefaultFee ==
    call.name = "create" =>
        /\ ret.kind = "ref"
        /\ Returned.maxFee = (IF call.maxFee = None THEN <<0, 0>> ELSE call.maxFee[1])

C6_Witness ==
    /\ call.name = "create"
    /\ call.maxFee = None
    /\ Returned.maxFee = <<0, 0>>

\* what the instance holds for a field of the wire layout
FieldValue(this, field) ==
    CASE field = "signature" ->
            IF this.signature = None THEN ZeroBytes(SignatureSize)
            ELSE hexToUint8(this.signature[1])
      [] field = "signerPublicKey" ->
            IF this.signer = None THEN ZeroBytes(PublicKeySize)
            ELSE hexToUint8(this.signer[1].publicKey)
      [] field = "version" -> this.version
      [] field = "network" -> this.networkType
      [] field = "type" -> VOTING_KEY_LINK
      [] field = "fee" -> this.maxFee
      [] field = "deadline" -> <<this.deadline, 0>>
      [] field = "linkedPublicKey" -> hexToUint8(this.linkedPublicKey)
      [] field = "startEpoch" -> this.startEpoch
      [] field = "endEpoch" -> this.endEpoch
      [] field = "linkAction" -> this.linkAction

WireOrder ==
    <<"signature", "signerPublicKey", "version", "network", "type", "fee", "deadline",
      "linkedPublicKey", "startEpoch", "endEpoch", "linkAction">>

NotEmbedded(field) == field \notin {"signature", "fee", "deadline"}

\* C7: the standalone encoder passes the codec the fields in the order
\* signature, signer public key, version, network type, type tag, max fee,
\* deadline, linked public key, start epoch, end epoch, link action; the
\* embedded encoder passes the same sequence without signature, max fee and
\* deadline.
C7_WireOrder ==
    /\ call.name = "createBuilder" =>
          ret.builder.args = [i \in 1..Len(WireOrder) |-> FieldValue(heap[This], WireOrder[i])]
    /\ call.name = "toEmbeddedTransaction" =>
          ret.builder.args =
              [i \in 1..Len(SelectSeq(WireOrder, NotEmbedded)) |->
                  FieldValue(heap[This], SelectSeq(WireOrder, NotEmbedded)[i])]

C7_Witness ==
    /\ call.name = "toEmbeddedTransaction"
    /\ Len(ret.builder.args) = 8
    /\ heap[This].startEpoch # heap[This].endEpoch
    /\ ret.builder.args[6] = heap[This].startEpoch
    /\ ret.builder.args[7] = heap[This].endEpoch
    /\ ret.builder.args[8] = heap[This].linkAction

\* C8: every instance, built by create or by createFromPayload in either
\* form, has the version VOTING_KEY_LINK_V1 and the type VOTING_KEY_LINK,
\* whatever version and type tag the payload carries.
C8_FixedVersionType ==
    \A i \in 1..Len(heap) :
        /\ heap[i].version = VOTING_KEY_LINK_V1
        /\ heap[i].type = VOTING_KEY_LINK

\* the version the payload of the call carries
PayloadVersion == Get(loadBuilder(call.payload, call.isEmbedded), "version")

C8_Witness ==
    /\ Decoding
    /\ call.damage = "version"
    /\ ret.kind = "ref"
    /\ PayloadVersion # VOTING_KEY_LINK_V1
    /\ Returned.version = VOTING_KEY_LINK_V1

\* C9: a call of createBuilder, toEmbeddedTransaction, resolveAliases or
\* shouldNotifyAccount leaves every field of the instance as it was, and
\* resolveAliases returns the instance itself.
C9_Immutable ==
    [][HasInstance =>
          /\ heap'[This] = heap[This]
          /\ call'.name = "resolveAliases" => ret' = Ref(This)]_vars

C9_Witness ==
    /\ call.name = "resolveAliases"
    /\ ret = Ref(This)
    /\ heap[This].signer # None

\* C10: create returns an instance holding its arguments as given, whatever
\* they are (endEpoch < startEpoch and a linkedPublicKey of another length
\* than the voting key's included); a linkedPublicKey of the wrong length is
\* rejected when the instance is serialized, and only then.
C10_NoValidation ==
    /\ call.name = "create" =>
          /\ ret = Ref(This)
          /\ \A f \in {"deadline", "linkedPublicKey", "startEpoch", "endEpoch", "linkAction",
                       "networkType", "signature", "signer"} : heap[This][f] = call[f]
    /\ ret.kind = "throw" =>
          /\ call.name \in {"serialize", "createFromPayload"}
          /\ call.name = "serialize" => ret.error = "EncodeError"
    /\ call.name = "serialize" =>
          (ret.kind = "throw" <=> Len(heap[This].linkedPublicKey) # 2 * VotingKeySize)

C10_Witness ==
    /\ call.name = "create"
    /\ ret = Ref(This)
    /\ heap[This].endEpoch < heap[This].startEpoch
    /\ Len(heap[This].linkedPublicKey) # 2 * VotingKeySize
====
